---- MODULE Spec2Model ----
(***************************************************************************)
(* Model of the repository-fix runner of pcds-python-migration-tools:      *)
(* main / get_fixes / start_commit / run_fixes of update_repository.py     *)
(* (update_twincat_repository.py carries the same run_fixes verbatim).     *)
(***************************************************************************)
EXTENDS Integers, Sequences, FiniteSets, TLC

(* ---------------------------- bounds ----------------------------------- *)

\* longest fix list of the free-form family of catalogs
MaxFixes == 2

\* most names given with --only against the five-fix catalog
MaxOnly == 3

\* most files a working tree holds when get_fixes first looks at it
MaxFiles == 2

\* most candidate destinations a template descriptor lists
MaxCandidates == 2

\* most files a DeleteFiles fix lists
MaxListed == 3

\* most lines a PrependLines or AppendLines fix is configured with, and most
\* lines the file it edits holds
MaxLines == 2

\* most times the run() of one fix is called in a row
MaxRuns == 2

\* most decorations, set calls and calls of decorated functions in a row
MaxEvents == 4

\* most repositories add_codeowners is given
MaxRepos == 2

(* ---------------------------- data ------------------------------------- *)

\* lines the operator may type at the "Continue? [Y/n]" prompt
Answers == {"", "y", "YES", "n", "No"}

\* str.lower() on the answers above
lower(s) ==
    CASE s = "YES" -> "yes"
      [] s = "No" -> "no"
      [] OTHER -> s

\* Fix.commit_message as overridden by each class
commit_message(fix) ==
    CASE fix.cls = "AddFile" -> ""
      [] fix.cls = "DeleteFiles" -> "CLN: removing"
      [] fix.cls = "AddFileFromTemplate" -> "MNT: updating from template"
      [] fix.cls = "GitHubActionsMigration" -> "CI: migrate to GitHub actions"
      [] fix.cls = "RunPyupgrade" -> "STY: update repository"
      [] fix.cls = "SetuptoolsScmMigration" -> "BLD: migrate to setuptools-scm"

\* the GitCommit of a composite built from its first child instead
GitCommitMessageOfChild(fix) ==
    IF fix.cls \in {"GitHubActionsMigration", "SetuptoolsScmMigration"}
    THEN <<"CLN: removing", "", "Performed by pcds-migration-tools",
           "DeleteFiles">>
    ELSE <<commit_message(fix), "", "Performed by pcds-migration-tools",
           fix.cls>>

\* the message of the GitCommit built by start_commit
GitCommitMessage(fix) ==
    <<commit_message(fix), "", "Performed by pcds-migration-tools", fix.cls>>

\* free-form catalogs: any list of 1..n fixes over two names and two classes
Names == {"add_LICENSE", "gha"}
Classes == {"AddFile", "GitHubActionsMigration"}
FixRecords == [name : Names, cls : Classes]
FixLists(n) == UNION {[1..k -> FixRecords] : k \in 1..n}
FreeInputs ==
    {<<list, s, o>> : list \in FixLists(MaxFixes),
                      s \in SUBSET Names, o \in SUBSET Names}

\* a five-fix catalog as get_fixes emits it, filtered with --only / --skip
PythonCatalog ==
    << [name |-> "remove-run_tests.py", cls |-> "DeleteFiles"],
       [name |-> "add_LICENSE", cls |-> "AddFileFromTemplate"],
       [name |-> "gha", cls |-> "GitHubActionsMigration"],
       [name |-> "pyupgrade", cls |-> "RunPyupgrade"],
       [name |-> "setuptools_scm", cls |-> "SetuptoolsScmMigration"] >>
CliNames == {PythonCatalog[k].name : k \in DOMAIN PythonCatalog} \cup {"add_license"}
CatalogInputs ==
    {<<PythonCatalog, s, o>> :
        s \in {{}, {"gha"}},
        o \in {x \in SUBSET CliNames : Cardinality(x) \in 1..MaxOnly}}

Inputs == FreeInputs \cup CatalogInputs

VARIABLES
    hasGit,      \* repo.root / ".git" exists
    catalog,     \* the fixes the repository's state calls for
    dry_run,     \* run_fixes argument
    skip,        \* run_fixes argument (names)
    only,        \* run_fixes argument (names)
    fixes,       \* the list main got from get_fixes
    pc,          \* position in main / run_fixes
    i,           \* loop index into fixes (1-based)
    output,      \* what run_fixes printed, in order
    ran,         \* indices of the fixes whose run() was invoked, in order
    disk,        \* per fix: what its run() left on disk
    tracked,     \* working tree holds staged or modified tracked files
    untracked,   \* working tree holds untracked files
    probes,      \* git status queries: fix, result
    commits,     \* GitCommit.run() calls: fix, message, created
    prompts,     \* "Continue? [Y/n]" prompts raised: fix, stage
    lastAnswer,  \* the operator's latest answer
    outcome      \* how main ended

VARIABLES
    variant,     \* which script's get_fixes is studied: "python" or "twincat"
    repo,        \* the working tree: path |-> text of the file
    sphinx,      \* the settings docs/source/conf.py holds
    rendered,    \* what the templates render to
    broken,      \* inputs of get_fixes that cannot be read or parsed
    stage,       \* position in build / apply / rebuild
    built,       \* what the latest get_fixes call gave
    first,       \* what the first get_fixes call gave
    descriptor,  \* the TemplateFile one round of the template loop looks at
    emitted      \* the fixes that round appended

VARIABLES
    subject,     \* the fix whose run() is studied on its own
    trees,       \* the working tree before the first run() and after each
    raises       \* for each run() so far, whether it raised

VARIABLES
    write,         \* add_codeowners: the --write option
    DryRunner_run, \* DryRunner._run, the class-wide flag
    decorated,     \* the functions decorated with DryRunner so far
    events,        \* DryRunner: decorations, set calls and calls, in order
    repos,         \* add_codeowners: the repositories to work on, in order
    settings,      \* add_codeowners: the position in repos being worked on
    branches,      \* repositories that hold a branch named branch_name
    api_calls,     \* the calls made on the GitHub API, in order
    at             \* add_codeowners: position in main

\* the state of the runner
runner == <<hasGit, catalog, dry_run, skip, only, fixes, pc, i, output, ran,
            disk, tracked, untracked, probes, commits, prompts, lastAnswer,
            outcome>>

\* the state of the catalog study
snapshot == <<variant, repo, sphinx, rendered, broken, stage, built, first,
              descriptor, emitted>>

\* the state of the study of one fix
study == <<subject, trees, raises>>

\* the state of add_codeowners and of DryRunner
owners == <<write, DryRunner_run, decorated, events, repos, settings, branches,
            api_calls, at>>

vars == <<runner, snapshot, study, owners>>

args == <<hasGit, catalog, dry_run, skip, only, untracked, snapshot, study,
          owners>>

Init ==
    /\ hasGit \in BOOLEAN
    /\ dry_run \in BOOLEAN
    /\ \E input \in Inputs :
          /\ catalog = input[1]
          /\ skip = input[2]
          /\ only = input[3]
          /\ disk = [k \in DOMAIN input[1] |-> "untouched"]
    /\ tracked \in BOOLEAN
    /\ untracked \in BOOLEAN
    /\ fixes = <<>>
    /\ pc = "main"
    /\ i = 0
    /\ output = <<>>
    /\ ran = <<>>
    /\ probes = <<>>
    /\ commits = <<>>
    /\ prompts = <<>>
    /\ lastAnswer = "none"
    /\ outcome = "running"
    /\ variant = "python"
    /\ repo = <<>>
    /\ sphinx = {}
    /\ rendered = <<>>
    /\ broken = {}
    /\ stage = "idle"
    /\ built = <<>>
    /\ first = <<>>
    /\ descriptor = <<>>
    /\ emitted = <<>>
    /\ subject = <<>>
    /\ trees = <<>>
    /\ raises = <<>>
    /\ write = FALSE
    /\ DryRunner_run = FALSE
    /\ decorated = <<>>
    /\ events = <<>>
    /\ repos = <<>>
    /\ settings = 0
    /\ branches = {}
    /\ api_calls = <<>>
    /\ at = "idle"

(* ---------------------------- conditions of run_fixes ------------------ *)

\* (mutant) the preview applies the --only filter as well
IsSkippedOrNotOnly(fix) ==
    \/ fix.name \in skip
    \/ (only # {} /\ fix.name \notin only)

\* line 684: the fix is announced as skipped instead of described
IsSkipped(fix) == fix.name \in skip

\* (mutant) --skip is looked at only when no --only is given
IsSelectedElif(fix) ==
    IF only # {} THEN fix.name \in only ELSE fix.name \notin skip

\* lines 699-702: the fix is executed
IsSelected(fix) ==
    /\ ~(only # {} /\ fix.name \notin only)
    /\ ~(fix.name \in skip)

\* lines 712 and 727: the answer lets the loop go on
Continues(answer) == lower(answer) \in {"", "y", "yes"}

\* git status --porcelain: empty output on a clean tree
git_status == IF tracked \/ untracked THEN "dirty" ELSE ""

(* ---------------------------- main ------------------------------------- *)

\* main: get_fixes raises without .git, otherwise hands its list to run_fixes
GetFixesRaises ==
    /\ pc = "main"
    /\ ~hasGit
    /\ pc' = "raised"
    /\ outcome' = "RuntimeError"
    /\ UNCHANGED <<args, fixes, i, output, ran, disk, tracked, probes,
                   commits, prompts, lastAnswer>>

\* (mutant) the ".git" test of line 559 is missing
GetFixesUnchecked ==
    /\ pc = "main"
    /\ fixes' = catalog
    /\ pc' = "preview"
    /\ i' = 1
    /\ UNCHANGED <<args, output, ran, disk, tracked, probes, commits,
                   prompts, lastAnswer, outcome>>

GetFixes ==
    /\ pc = "main"
    /\ hasGit
    /\ fixes' = catalog
    /\ pc' = "preview"
    /\ i' = 1
    /\ UNCHANGED <<args, output, ran, disk, tracked, probes, commits,
                   prompts, lastAnswer, outcome>>

(* ---------------------------- run_fixes -------------------------------- *)

printed(kind, k) == Append(output, [kind |-> kind, fix |-> k])

\* the first loop with a description that is computed by running the fix
PreviewRunsFix ==
    /\ pc = "preview"
    /\ i <= Len(fixes)
    /\ output' = IF IsSkipped(fixes[i]) THEN printed("skipped", i)
                                        ELSE printed("desc", i)
    /\ disk' = IF IsSkipped(fixes[i]) THEN disk
                                      ELSE [disk EXCEPT ![i] = "done"]
    /\ tracked' = (tracked \/ ~IsSkipped(fixes[i]))
    /\ i' = i + 1
    /\ UNCHANGED <<args, fixes, pc, ran, probes, commits, prompts,
                   lastAnswer, outcome>>

\* first loop: one iteration
Preview ==
    /\ pc = "preview"
    /\ i <= Len(fixes)
    /\ output' = IF IsSkipped(fixes[i]) THEN printed("skipped", i)
                                        ELSE printed("desc", i)
    /\ i' = i + 1
    /\ UNCHANGED <<args, fixes, pc, ran, disk, tracked, probes, commits,
                   prompts, lastAnswer, outcome>>

\* (mutant) the "if dry_run: return" of line 693 is missing
DecideIgnoresDryRun ==
    /\ pc = "preview"
    /\ i > Len(fixes)
    /\ pc' = "exec"
    /\ i' = 1
    /\ output' = printed("banner", 0)
    /\ UNCHANGED <<args, fixes, ran, disk, tracked, probes, commits,
                   prompts, lastAnswer, outcome>>

\* end of the first loop: "if dry_run: return", else the banner
Decide ==
    /\ pc = "preview"
    /\ i > Len(fixes)
    /\ IF dry_run
         THEN /\ pc' = "done"
              /\ outcome' = "dry_run"
              /\ UNCHANGED <<i, output>>
         ELSE /\ pc' = "exec"
              /\ i' = 1
              /\ output' = printed("banner", 0)
              /\ UNCHANGED outcome
    /\ UNCHANGED <<args, fixes, ran, disk, tracked, probes, commits,
                   prompts, lastAnswer>>

\* (mutant) the "if not fix.commit_message: continue" of line 715 is missing
AfterRunNoGate(k) ==
    /\ pc' = "status"
    /\ i' = k

\* where the loop goes once fix.run() is dealt with: the commit gate
AfterRun(k) ==
    IF commit_message(fixes[k]) = ""
      THEN /\ pc' = "exec"
           /\ i' = k + 1
      ELSE /\ pc' = "status"
           /\ i' = k

\* second loop: a fix filtered out by only / skip
ExecSkip ==
    /\ pc = "exec"
    /\ i <= Len(fixes)
    /\ ~IsSelected(fixes[i])
    /\ i' = i + 1
    /\ UNCHANGED <<args, fixes, pc, output, ran, disk, tracked, probes,
                   commits, prompts, lastAnswer, outcome>>

\* second loop: describe the fix, then fix.run()
RunFix ==
    /\ pc = "exec"
    /\ i <= Len(fixes)
    /\ IsSelected(fixes[i])
    /\ output' = printed("desc", i)
    /\ ran' = Append(ran, i)
    /\ \E result \in {"changed", "unchanged", "raised"} :
          CASE result = "changed" ->
                 /\ disk' = [disk EXCEPT ![i] = "done"]
                 /\ tracked' = TRUE
                 /\ AfterRun(i)
            [] result = "unchanged" ->
                 /\ UNCHANGED <<disk, tracked>>
                 /\ AfterRun(i)
            [] result = "raised" ->
                 /\ \E partial \in BOOLEAN :
                       IF partial
                         THEN /\ disk' = [disk EXCEPT ![i] = "partial"]
                              /\ tracked' = TRUE
                         ELSE UNCHANGED <<disk, tracked>>
                 /\ pc' = "prompt_run"
                 /\ i' = i
    /\ prompts' = IF pc' = "prompt_run"
                    THEN Append(prompts, [fix |-> i, stage |-> "run"])
                    ELSE prompts
    /\ UNCHANGED <<args, fixes, probes, commits, lastAnswer, outcome>>

\* (mutant) the except-branch of fix.run() never breaks
PromptRunNeverBreaks ==
    /\ pc = "prompt_run"
    /\ \E answer \in Answers :
          /\ lastAnswer' = answer
          /\ AfterRun(i)
          /\ UNCHANGED outcome
    /\ UNCHANGED <<args, fixes, output, ran, disk, tracked, probes, commits,
                   prompts>>

\* except-branch of fix.run(): input(), break or fall through to the gate
PromptRun ==
    /\ pc = "prompt_run"
    /\ \E answer \in Answers :
          /\ lastAnswer' = answer
          /\ IF Continues(answer)
               THEN /\ AfterRun(i)
                    /\ UNCHANGED outcome
               ELSE /\ pc' = "done"
                    /\ outcome' = "break"
                    /\ UNCHANGED i
    /\ UNCHANGED <<args, fixes, output, ran, disk, tracked, probes, commits,
                   prompts>>

\* (mutant) start_commit returns the commit whatever git status printed
StartCommitAlwaysCommits ==
    /\ pc = "status"
    /\ \E exit \in {0, 128} :
          IF exit # 0
            THEN /\ probes' = Append(probes, [fix |-> i, result |-> "error"])
                 /\ pc' = "raised"
                 /\ outcome' = "CalledProcessError"
                 /\ UNCHANGED i
            ELSE /\ probes' = Append(probes, [fix |-> i, result |-> git_status])
                 /\ UNCHANGED outcome
                 /\ pc' = "commit"
                 /\ UNCHANGED i
    /\ UNCHANGED <<args, fixes, output, ran, disk, tracked, commits, prompts,
                   lastAnswer>>

\* start_commit: git status --porcelain, outside any try
StartCommit ==
    /\ pc = "status"
    /\ \E exit \in {0, 128} :
          IF exit # 0
            THEN /\ probes' = Append(probes, [fix |-> i, result |-> "error"])
                 /\ pc' = "raised"
                 /\ outcome' = "CalledProcessError"
                 /\ UNCHANGED i
            ELSE /\ probes' = Append(probes, [fix |-> i, result |-> git_status])
                 /\ UNCHANGED outcome
                 /\ IF git_status = ""
                      THEN /\ pc' = "exec"
                           /\ i' = i + 1
                      ELSE /\ pc' = "commit"
                           /\ UNCHANGED i
    /\ UNCHANGED <<args, fixes, output, ran, disk, tracked, commits, prompts,
                   lastAnswer>>

\* commit.run(): git commit -an -m message
CommitRun ==
    /\ pc = "commit"
    /\ \E exit \in (IF tracked THEN {0, 128} ELSE {1}) :
          /\ commits' = Append(commits, [fix |-> i,
                                         message |-> GitCommitMessage(fixes[i]),
                                         created |-> (exit = 0)])
          /\ IF exit = 0
               THEN /\ tracked' = FALSE
                    /\ pc' = "exec"
                    /\ i' = i + 1
                    /\ UNCHANGED prompts
               ELSE /\ UNCHANGED tracked
                    /\ pc' = "prompt_commit"
                    /\ UNCHANGED i
                    /\ prompts' = Append(prompts, [fix |-> i, stage |-> "commit"])
    /\ UNCHANGED <<args, fixes, output, ran, disk, probes, lastAnswer, outcome>>

\* (mutant) the test on the answer is inverted ("in" for "not in")
PromptCommitInverted ==
    /\ pc = "prompt_commit"
    /\ \E answer \in Answers :
          /\ lastAnswer' = answer
          /\ IF ~(lower(answer) \in {"", "y", "yes"})
               THEN /\ pc' = "exec"
                    /\ i' = i + 1
                    /\ UNCHANGED outcome
               ELSE /\ pc' = "done"
                    /\ outcome' = "break"
                    /\ UNCHANGED i
    /\ UNCHANGED <<args, fixes, output, ran, disk, tracked, probes, commits,
                   prompts>>

\* except-branch of commit.run(): input(), break or next fix
PromptCommit ==
    /\ pc = "prompt_commit"
    /\ \E answer \in Answers :
          /\ lastAnswer' = answer
          /\ IF Continues(answer)
               THEN /\ pc' = "exec"
                    /\ i' = i + 1
                    /\ UNCHANGED outcome
               ELSE /\ pc' = "done"
                    /\ outcome' = "break"
                    /\ UNCHANGED i
    /\ UNCHANGED <<args, fixes, output, ran, disk, tracked, probes, commits,
                   prompts>>

\* the second loop runs off the end of the list
ExecEnd ==
    /\ pc = "exec"
    /\ i > Len(fixes)
    /\ pc' = "done"
    /\ outcome' = "end"
    /\ UNCHANGED <<args, fixes, i, output, ran, disk, tracked, probes,
                   commits, prompts, lastAnswer>>

Next ==
    \/ GetFixesRaises
    \/ GetFixes
    \/ Preview
    \/ Decide
    \/ ExecSkip
    \/ RunFix
    \/ PromptRun
    \/ StartCommit
    \/ CommitRun
    \/ PromptCommit
    \/ ExecEnd

Spec == Init /\ [][Next]_vars

(* ---------------------------- texts ------------------------------------ *)

\* the elements of a sequence
Range(s) == {s[k] : k \in DOMAIN s}

\* a text is a sequence of characters
Whitespace == {" ", "\n"}

\* str.rstrip()
RECURSIVE rstrip(_)
rstrip(t) ==
    IF t = <<>> THEN <<>>
    ELSE IF t[Len(t)] \in Whitespace THEN rstrip(SubSeq(t, 1, Len(t) - 1))
    ELSE t

\* what `print(contents.rstrip(), file=fp)` leaves in the file
written(contents) == Append(rstrip(contents), "\n")

\* str.splitlines()
RECURSIVE splitlines(_)
splitlines(t) ==
    IF t = <<>> THEN <<>>
    ELSE LET breaks == {k \in DOMAIN t : t[k] = "\n"}
         IN  IF breaks = {} THEN <<t>>
             ELSE LET k == CHOOSE b \in breaks : \A c \in breaks : b <= c
                  IN  <<SubSeq(t, 1, k - 1)>>
                          \o splitlines(SubSeq(t, k + 1, Len(t)))

\* "\n".join(lines)
RECURSIVE join(_)
join(lines) ==
    IF lines = <<>> THEN <<>>
    ELSE IF Len(lines) = 1 THEN lines[1]
    ELSE lines[1] \o <<"\n">> \o join(Tail(lines))

\* texts a template renders to
TemplateTexts == {<<"x">>, <<"x", "\n">>, <<"x", "\n", "\n">>}

\* texts a file of the working tree holds before any fix ran
FileTexts == {<<"x", "\n">>, <<"y", "\n">>}

\* Optional[str] without a value
None == <<"None">>

\* the workflow migrate_travis_to_gha writes for the repository's .travis.yml
workflow == rstrip(<<"w", "\n">>)

\* toml.dumps of what migrate_setup_py_to_pyproject reads from setup.py
pyproject_toml == <<"p", "\n">>

\* the line SetuptoolsScmMigration prepends to the package's __init__.py
version_import == <<"v">>

\* the lines SetuptoolsScmMigration removes from the package's __init__.py
versioneer_lines == <<<<"g">>, <<"d">>>>

(* ---------------------------- paths ------------------------------------ *)

travis_yml == ".travis.yml"
gha_workflow == ".github/workflows/standard.yml"
sphinx_config == "docs/source/conf.py"
import_dir == "pkg/"

\* the templates the Python script provisions, with their candidate names
PyTemplates ==
    <<"LICENSE", "AUTHORS.rst", "CONTRIBUTING.rst", ".pre-commit-config.yaml",
      ".flake8", ".coveragerc", ".git_archival.txt", ".gitattributes">>

LicenseNames == <<"LICENSE", "LICENSE.md", "LICENSE.rst">>

\* paths a Python repository may hold
PyPaths ==
    {PyTemplates[k] : k \in DOMAIN PyTemplates}
        \cup {"LICENSE.md", "LICENSE.rst", "run_tests.py", travis_yml,
              gha_workflow, sphinx_config, "setup.py", "setup.cfg",
              "versioneer.py", "pyproject.toml", import_dir \o "version.py",
              import_dir \o "_version.py", import_dir \o "__init__.py"}

\* paths a TwinCAT repository may hold
TcPaths ==
    {"LICENSE", "LICENSE.md", "LICENSE.rst", ".github/ISSUE_TEMPLATE.md",
     ".github/PULL_REQUEST_TEMPLATE.md", ".pre-commit-config.yaml",
     "README.md", travis_yml, gha_workflow, "docs.enc", "deploy.enc"}

\* repo.root.glob("*.enc"), in the order the listing gives
EncFiles(R) == SelectSeq(<<"deploy.enc", "docs.enc">>, LAMBDA p : p \in DOMAIN R)

\* pyupgrade_skip_files applied to repo.root.glob("**/*.py")
python_source_files(R) ==
    DOMAIN R \cap {"run_tests.py", sphinx_config, import_dir \o "version.py",
                   import_dir \o "__init__.py"}

\* the sets of at most n elements of S
RECURSIVE SubsetsUpTo(_, _)
SubsetsUpTo(S, n) ==
    IF n = 0 THEN {{}}
    ELSE LET smaller == SubsetsUpTo(S, n - 1)
         IN  smaller \cup {s \cup {x} : s \in smaller, x \in S}

\* inputs of get_fixes that may be unreadable: a template of the checkout,
\* a legacy file of the repository
BrokenInputs ==
    {<<"template", "LICENSE">>, <<"template", "version.py">>,
     <<"repo", travis_yml>>, <<"repo", "setup.py">>}

\* settings a conf.py may hold
SphinxConfs ==
    {{}, {"language = None"}, {"doctr_versions_menu", "extensions = ["},
     {"docs-versions-menu", "extensions = [", "sphinxcontrib.jquery"}}

(* ---------------------------- fixes ------------------------------------ *)

\* no destination
NoPath == ""

\* the fields of a Fix that the classes below fill in
Fix(name, cls) ==
    [name |-> name, cls |-> cls, files |-> <<>>, nested_fixes |-> <<>>,
     file |-> NoPath, contents |-> <<>>, lines |-> <<>>,
     existing_contents |-> None,
     changed |-> FALSE, missing_ok |-> FALSE, skip_if_present |-> TRUE,
     raises |-> FALSE]

DeleteFiles(name, files, missing_ok) ==
    [Fix(name, "DeleteFiles") EXCEPT !.files = files,
                                     !.missing_ok = missing_ok]

AddFile(name, file, contents) ==
    [Fix(name, "AddFile") EXCEPT !.files = <<file>>, !.file = file,
                                 !.contents = contents]

PrependLines(name, file, lines) ==
    [Fix(name, "PrependLines") EXCEPT !.files = <<file>>, !.file = file,
                                      !.lines = lines]

AppendLines(name, file, lines) ==
    [Fix(name, "AppendLines") EXCEPT !.files = <<file>>, !.file = file,
                                     !.lines = lines]

RemoveLines(name, file, lines) ==
    [Fix(name, "RemoveLines") EXCEPT !.files = <<file>>, !.file = file,
                                     !.lines = lines]

\* AddFileFromTemplate.__post_init__: opening the template raises when the
\* template is missing; contents is what the template renders to
AddFileFromTemplate(name, template_file, dest_file, R, brk) ==
    [Fix(name, "AddFileFromTemplate") EXCEPT
        !.raises = <<"template", template_file>> \in brk,
        !.contents = rendered,
        !.file = dest_file,
        !.files = <<dest_file>>,
        !.existing_contents =
            IF dest_file \in DOMAIN R THEN R[dest_file] ELSE None,
        !.changed = dest_file \in DOMAIN R /\ R[dest_file] # rendered]

\* GitHubActionsMigration with the workflow added before the legacy file
\* is deleted
GitHubActionsMigrationAddFirst(name, R, brk) ==
    [Fix(name, "GitHubActionsMigration") EXCEPT
        !.raises = <<"repo", travis_yml>> \in brk \/ travis_yml \notin DOMAIN R,
        !.nested_fixes =
            <<AddFile("add_gha_workflow", gha_workflow, workflow),
              DeleteFiles("delete_travis", <<travis_yml>>, FALSE)>>]

\* GitHubActionsMigration.__post_init__
GitHubActionsMigration(name, R, brk) ==
    [Fix(name, "GitHubActionsMigration") EXCEPT
        !.raises = <<"repo", travis_yml>> \in brk \/ travis_yml \notin DOMAIN R,
        !.nested_fixes =
            <<DeleteFiles("delete_travis", <<travis_yml>>, FALSE),
              AddFile("add_gha_workflow", gha_workflow, workflow)>>]

\* the replacements of UpdateSphinxConfig.__post_init__
new_contents(cfg) ==
    LET menu == IF "doctr_versions_menu" \in cfg
                THEN (cfg \ {"doctr_versions_menu"}) \cup {"docs-versions-menu"}
                ELSE cfg
        lang == IF "language = None" \in menu
                THEN (menu \ {"language = None"}) \cup {"language = en"}
                ELSE menu
    IN  IF "sphinxcontrib.jquery" \notin lang /\ "extensions = [" \in lang
        THEN lang \cup {"sphinxcontrib.jquery"}
        ELSE lang

UpdateSphinxConfig(name, file, cfg) ==
    [Fix(name, "UpdateSphinxConfig") EXCEPT
        !.file = file,
        !.contents = new_contents(cfg),
        !.changed = cfg # new_contents(cfg)]

RunPyupgrade(name) == Fix(name, "RunPyupgrade")

\* PyprojectTomlMigration.__post_init__
PyprojectTomlMigration(name, R, brk) ==
    [Fix(name, "PyprojectTomlMigration") EXCEPT
        !.raises = <<"repo", "setup.py">> \in brk,
        !.nested_fixes =
            <<DeleteFiles("delete_setup_py", <<"setup.py", "setup.cfg">>, TRUE),
              AddFile("add_pyproject_toml", "pyproject.toml", pyproject_toml)>>]

\* SetuptoolsScmMigration.__post_init__
SetuptoolsScmMigration(name, R, brk) ==
    LET add_version ==
            AddFileFromTemplate("add_setuptools_version", "version.py",
                                import_dir \o "version.py", R, brk)
    IN  [Fix(name, "SetuptoolsScmMigration") EXCEPT
            !.raises = add_version.raises,
            !.nested_fixes =
                <<DeleteFiles("delete_versioneer",
                              <<"versioneer.py", import_dir \o "_version.py">>,
                              TRUE),
                  RemoveLines("versioneer_lines", import_dir \o "__init__.py",
                              versioneer_lines),
                  PrependLines("setuptools_scm_version",
                               import_dir \o "__init__.py", <<version_import>>),
                  add_version>>]

\* helpers.PrecommitAutoupdate as get_fixes of the TwinCAT script calls it
PrecommitAutoupdate(name) == Fix(name, "PrecommitAutoupdate")

\* description with the diff of AddFileFromTemplate computed before the
\* test for a missing destination
descriptionDiffFirst(fix) ==
    CASE fix.cls = "AddFileFromTemplate" ->
            IF fix.existing_contents = None THEN "AttributeError"
            ELSE IF fix.changed THEN "Modify"
            ELSE "unchanged; this fix is a no-op"
      [] OTHER -> "NotImplementedError"

\* the first words of Fix.description
description(fix) ==
    CASE fix.cls = "AddFileFromTemplate" ->
            IF fix.existing_contents = None THEN "Add *new*"
            ELSE IF fix.changed THEN "Modify"
            ELSE "unchanged; this fix is a no-op"
      [] fix.cls = "DeleteFiles" -> "Delete these files"
      [] fix.cls = "AddFile" -> "Add"
      [] fix.cls = "PrependLines" -> "Prepend lines"
      [] fix.cls = "AppendLines" -> "Add lines"
      [] fix.cls = "RemoveLines" -> "Remove matching lines"
      [] fix.cls = "UpdateSphinxConfig" ->
            IF fix.changed THEN "Update" ELSE "No change to sphinx config"
      [] fix.cls = "RunPyupgrade" -> "Run pyupgrade"
      [] fix.cls = "GitHubActionsMigration" -> "CI: migrate to GitHub actions"
      [] fix.cls = "PyprojectTomlMigration" -> "BLD: migrate to pyproject.toml"
      [] fix.cls = "SetuptoolsScmMigration" -> "BLD: migrate to setuptools-scm"
      [] OTHER -> "NotImplementedError"

(* ---------------------------- get_fixes -------------------------------- *)

\* TemplateFile of update_repository.py, with its __post_init__
TemplateFile(template_file, possible_files, add_if_missing) ==
    [template_file |-> template_file,
     possible_files |-> IF possible_files = <<>> THEN <<template_file>>
                        ELSE possible_files,
     add_if_missing |-> add_if_missing]

\* TemplateFile of update_twincat_repository.py, with its __post_init__
TwincatTemplateFile(template_file, possible_files, add_if_missing, update_if_existing) ==
    [template_file |-> template_file,
     possible_files |-> IF possible_files = <<>> THEN <<template_file>>
                        ELSE possible_files,
     add_if_missing |-> add_if_missing,
     update_if_existing |-> update_if_existing]

\* to_update of the Python script
PyToUpdate ==
    [k \in DOMAIN PyTemplates |->
        TemplateFile(PyTemplates[k], IF k = 1 THEN LicenseNames ELSE <<>>, TRUE)]

\* to_update of the TwinCAT script, before the workflow branch
TcToUpdate ==
    <<TwincatTemplateFile("LICENSE", LicenseNames, TRUE, TRUE),
      TwincatTemplateFile(".github/ISSUE_TEMPLATE.md", <<>>, TRUE, FALSE),
      TwincatTemplateFile(".github/PULL_REQUEST_TEMPLATE.md", <<>>, TRUE, FALSE),
      TwincatTemplateFile(".pre-commit-config.yaml", <<>>, TRUE, FALSE),
      TwincatTemplateFile("README.md", <<>>, TRUE, FALSE)>>

\* the for/else with the break left out: the last candidate that exists
DestFileLastExisting(file, R) ==
    LET hits == {k \in DOMAIN file.possible_files :
                    file.possible_files[k] \in DOMAIN R}
    IN  IF hits # {}
        THEN file.possible_files[CHOOSE k \in hits : \A h \in hits : k >= h]
        ELSE IF ~file.add_if_missing THEN NoPath
        ELSE file.template_file

\* the for/else over file.possible_files: the first candidate that exists,
\* else the template's own name when add_if_missing, else no destination
DestFile(file, R) ==
    LET hits == {k \in DOMAIN file.possible_files :
                    file.possible_files[k] \in DOMAIN R}
    IN  IF hits # {}
        THEN file.possible_files[CHOOSE k \in hits : \A h \in hits : k <= h]
        ELSE IF ~file.add_if_missing THEN NoPath
        ELSE file.template_file

\* one round of the template loop of the Python script
PyLoopBody(file, R, brk) ==
    LET dest_file == DestFile(file, R)
    IN  IF dest_file = NoPath THEN <<>>
        ELSE <<AddFileFromTemplate("add_" \o file.template_file,
                                   file.template_file, dest_file, R, brk)>>

\* the round of the TwinCAT loop without the update_if_existing test
TcLoopBodyNoPolicy(file, R, brk) ==
    LET dest_file == DestFile(file, R)
    IN  IF dest_file = NoPath THEN <<>>
        ELSE <<AddFileFromTemplate("add_" \o file.template_file,
                                   file.template_file, dest_file, R, brk)>>

\* one round of the template loop of the TwinCAT script
TcLoopBody(file, R, brk) ==
    LET dest_file == DestFile(file, R)
    IN  IF dest_file = NoPath THEN <<>>
        ELSE IF dest_file \in DOMAIN R /\ ~file.update_if_existing THEN <<>>
        ELSE <<AddFileFromTemplate("add_" \o file.template_file,
                                   file.template_file, dest_file, R, brk)>>

\* the lists of a list of lists, one after the other
RECURSIVE Flatten(_)
Flatten(lists) ==
    IF lists = <<>> THEN <<>> ELSE Head(lists) \o Flatten(Tail(lists))

\* the constructor calls of get_fixes of update_repository.py, in order
PyConstructed(R, cfg, brk) ==
    LET sphinx_update == UpdateSphinxConfig("update_sphinx_config",
                                            sphinx_config, cfg)
    IN  (IF "run_tests.py" \in DOMAIN R
         THEN <<DeleteFiles("remove-run_tests.py", <<"run_tests.py">>, FALSE)>>
         ELSE <<>>)
        \o Flatten([k \in DOMAIN PyToUpdate |->
                        PyLoopBody(PyToUpdate[k], R, brk)])
        \o (IF travis_yml \in DOMAIN R
            THEN <<GitHubActionsMigration("gha", R, brk)>> ELSE <<>>)
        \o (IF sphinx_config \in DOMAIN R /\ sphinx_update.changed
            THEN <<sphinx_update>> ELSE <<>>)
        \o <<RunPyupgrade("pyupgrade")>>
        \o (IF "setup.py" \in DOMAIN R
            THEN <<PyprojectTomlMigration("pyproject.toml", R, brk)>>
            ELSE <<>>)
        \o (IF "versioneer.py" \in DOMAIN R
               \/ import_dir \o "version.py" \notin DOMAIN R
            THEN <<SetuptoolsScmMigration("setuptools_scm", R, brk)>>
            ELSE <<>>)

\* the TemplateFile(...) call of the TwinCAT script's workflow branch gives
\* no template_root, which the dataclass requires: TypeError
TcDescriptorRaises(R) ==
    travis_yml \notin DOMAIN R /\ gha_workflow \notin DOMAIN R

\* the constructor calls of get_fixes of update_twincat_repository.py
TcConstructed(R, brk) ==
    (IF travis_yml \in DOMAIN R
     THEN <<GitHubActionsMigration("gha", R, brk)>> ELSE <<>>)
    \o Flatten([k \in DOMAIN TcToUpdate |-> TcLoopBody(TcToUpdate[k], R, brk)])
    \o (IF EncFiles(R) # <<>>
        THEN <<DeleteFiles("remove_docs_tokens", EncFiles(R), FALSE)>>
        ELSE <<>>)
    \o <<PrecommitAutoupdate("run_precommit")>>

\* an exception leaving get_fixes
Raised(error) == [raised |-> TRUE, error |-> error, fixes |-> <<>>]

\* the constructor calls get_fixes makes on working tree R, in order
constructed(v, R, cfg, brk) ==
    IF v = "python" THEN PyConstructed(R, cfg, brk) ELSE TcConstructed(R, brk)

\* get_fixes of either script: no constructor call sits in a try, so the
\* first constructor that raises ends get_fixes
get_fixes(v, git, R, cfg, brk) ==
    LET fixes_ == constructed(v, R, cfg, brk)
    IN  IF ~git THEN Raised("RuntimeError")
        ELSE IF v = "twincat" /\ TcDescriptorRaises(R)
        THEN Raised("TypeError")
        ELSE IF \E k \in DOMAIN fixes_ : fixes_[k].raises
        THEN Raised("constructor")
        ELSE [raised |-> FALSE, error |-> "", fixes |-> fixes_]

(* ---------------------------- running fixes ---------------------------- *)

\* the working tree with text t at path p
Put(R, p, t) == [q \in DOMAIN R \cup {p} |-> IF q = p THEN t ELSE R[q]]

\* the working tree without path p
Unlink(R, p) == [q \in DOMAIN R \ {p} |-> R[q]]

\* the working tree a run starts from: nothing touched, nothing raised, no
\* run() of a nested fix called
Tree(R, cfg) ==
    [R |-> R, cfg |-> cfg, touched |-> {}, raised |-> FALSE, calls |-> <<>>]

\* DeleteFiles.run going on to the next file after any missing one
RECURSIVE delete_files_lenient(_, _, _)
delete_files_lenient(files, missing_ok, st) ==
    IF files = <<>> THEN st
    ELSE IF Head(files) \in DOMAIN st.R
    THEN delete_files_lenient(Tail(files), missing_ok,
                              [st EXCEPT !.R = Unlink(@, Head(files)),
                                         !.touched = @ \cup {Head(files)}])
    ELSE delete_files_lenient(Tail(files), missing_ok, st)

\* DeleteFiles.run
RECURSIVE delete_files(_, _, _)
delete_files(files, missing_ok, st) ==
    IF files = <<>> \/ st.raised THEN st
    ELSE IF Head(files) \in DOMAIN st.R
    THEN delete_files(Tail(files), missing_ok,
                      [st EXCEPT !.R = Unlink(@, Head(files)),
                                 !.touched = @ \cup {Head(files)}])
    ELSE IF missing_ok THEN delete_files(Tail(files), missing_ok, st)
    ELSE [st EXCEPT !.raised = TRUE]

\* the loop of PrependLines.run: lines.insert(0, line) for each configured
\* line that is to be added
RECURSIVE prepend(_, _, _)
prepend(lines, new, skip_if_present) ==
    IF new = <<>> THEN lines
    ELSE prepend(IF skip_if_present /\ \E k \in DOMAIN lines : lines[k] = Head(new)
                 THEN lines ELSE <<Head(new)>> \o lines,
                 Tail(new), skip_if_present)

\* the loop of AppendLines.run without the skip_if_present test
RECURSIVE append_always(_, _, _)
append_always(lines, new, skip_if_present) ==
    IF new = <<>> THEN lines
    ELSE append_always(Append(lines, Head(new)), Tail(new), skip_if_present)

\* the loop of AppendLines.run: lines.append(line) for each configured line
\* that is to be added
RECURSIVE append(_, _, _)
append(lines, new, skip_if_present) ==
    IF new = <<>> THEN lines
    ELSE append(IF skip_if_present /\ \E k \in DOMAIN lines : lines[k] = Head(new)
                THEN lines ELSE Append(lines, Head(new)),
                Tail(new), skip_if_present)

\* the loop of RemoveLines.run
remove(lines, gone) ==
    SelectSeq(lines, LAMBDA l : \A k \in DOMAIN gone : gone[k] # l)

\* run() of the fixes that hold no nested fixes
run_leaf(fix, st) ==
    CASE fix.cls = "DeleteFiles" ->
            delete_files(fix.files, fix.missing_ok, st)
      [] fix.cls \in {"AddFile", "AddFileFromTemplate"} ->
            [st EXCEPT !.R = Put(@, fix.file, written(fix.contents)),
                       !.touched = @ \cup {fix.file}]
      [] fix.cls = "PrependLines" ->
            IF fix.file \notin DOMAIN st.R THEN [st EXCEPT !.raised = TRUE]
            ELSE [st EXCEPT
                    !.R = Put(@, fix.file,
                              written(join(prepend(splitlines(@[fix.file]),
                                                   fix.lines,
                                                   fix.skip_if_present)))),
                    !.touched = @ \cup {fix.file}]
      [] fix.cls = "AppendLines" ->
            IF fix.file \notin DOMAIN st.R THEN [st EXCEPT !.raised = TRUE]
            ELSE [st EXCEPT
                    !.R = Put(@, fix.file,
                              written(join(append(splitlines(@[fix.file]),
                                                  fix.lines,
                                                  fix.skip_if_present)))),
                    !.touched = @ \cup {fix.file}]
      [] fix.cls = "RemoveLines" ->
            IF fix.file \notin DOMAIN st.R THEN [st EXCEPT !.raised = TRUE]
            ELSE [st EXCEPT
                    !.R = Put(@, fix.file,
                              written(join(remove(splitlines(@[fix.file]),
                                                  fix.lines)))),
                    !.touched = @ \cup {fix.file}]
      [] fix.cls = "UpdateSphinxConfig" ->
            [st EXCEPT !.cfg = fix.contents,
                       !.touched = @ \cup {fix.file}]
      [] fix.cls = "RunPyupgrade" ->
            [st EXCEPT !.touched = @ \cup python_source_files(st.R)]
      [] OTHER -> st

\* NestedFix.run walking the children from the last to the first
RECURSIVE run_nested_backwards(_, _)
run_nested_backwards(nested_fixes, st) ==
    IF nested_fixes = <<>> \/ st.raised THEN st
    ELSE LET last == nested_fixes[Len(nested_fixes)]
         IN  run_nested_backwards(
                 SubSeq(nested_fixes, 1, Len(nested_fixes) - 1),
                 run_leaf(last, [st EXCEPT !.calls = Append(@, last.name)]))

\* NestedFix.run: fix.run() of the children in order, up to the first that
\* raises
RECURSIVE run_nested(_, _)
run_nested(nested_fixes, st) ==
    IF nested_fixes = <<>> \/ st.raised THEN st
    ELSE run_nested(Tail(nested_fixes),
                    run_leaf(Head(nested_fixes),
                             [st EXCEPT !.calls = Append(@, Head(nested_fixes).name)]))

\* fix.run()
run(fix, st) ==
    IF fix.nested_fixes # <<>> THEN run_nested(fix.nested_fixes, st)
    ELSE run_leaf(fix, st)

\* the execution loop of run_fixes over a whole catalog: every fix runs, and
\* the operator answers the prompt after a failure with Y
RECURSIVE apply(_, _)
apply(fixes_, st) ==
    IF fixes_ = <<>> THEN st
    ELSE apply(Tail(fixes_), [run(Head(fixes_), st) EXCEPT !.raised = FALSE])

(* ---------------------------- building and applying catalogs ----------- *)

\* no get_fixes call made yet
NotBuilt == [raised |-> FALSE, error |-> "not called", fixes |-> <<>>]

\* the working trees get_fixes may meet
Snapshots ==
    {<<v, files>> : v \in {"python"}, files \in SubsetsUpTo(PyPaths, MaxFiles)}
        \cup {<<v, files>> : v \in {"twincat"},
                             files \in SubsetsUpTo(TcPaths, MaxFiles)}

CatalogInit ==
    /\ hasGit = TRUE
    /\ catalog = <<>>
    /\ dry_run = TRUE
    /\ skip = {}
    /\ only = {}
    /\ fixes = <<>>
    /\ pc = "catalog"
    /\ i = 0
    /\ output = <<>>
    /\ ran = <<>>
    /\ disk = <<>>
    /\ tracked = FALSE
    /\ untracked = FALSE
    /\ probes = <<>>
    /\ commits = <<>>
    /\ prompts = <<>>
    /\ lastAnswer = "none"
    /\ outcome = "running"
    /\ \E s \in Snapshots, t \in FileTexts :
          /\ variant = s[1]
          /\ repo = [p \in s[2] |-> t]
          /\ sphinx \in IF sphinx_config \in s[2] THEN SphinxConfs ELSE {{}}
    /\ rendered \in TemplateTexts
    /\ broken \in {{}} \cup {{b} : b \in BrokenInputs}
    /\ stage = "snapshot"
    /\ built = NotBuilt
    /\ first = NotBuilt
    /\ descriptor = <<>>
    /\ emitted = <<>>
    /\ subject = <<>>
    /\ trees = <<>>
    /\ raises = <<>>
    /\ write = FALSE
    /\ DryRunner_run = FALSE
    /\ decorated = <<>>
    /\ events = <<>>
    /\ repos = <<>>
    /\ settings = 0
    /\ branches = {}
    /\ api_calls = <<>>
    /\ at = "idle"

\* a run of the script up to the end of get_fixes
CatalogBuild ==
    /\ stage \in {"snapshot", "applied"}
    /\ built' = get_fixes(variant, hasGit, repo, sphinx, broken)
    /\ first' = IF stage = "snapshot" THEN built' ELSE first
    /\ stage' = IF stage = "snapshot" THEN "built" ELSE "rebuilt"
    /\ UNCHANGED <<runner, study, owners, variant, repo, sphinx, rendered, broken,
                   descriptor, emitted>>

\* the execution loop of run_fixes over the catalog just built
CatalogApply ==
    /\ stage = "built"
    /\ ~built.raised
    /\ LET st == apply(built.fixes, Tree(repo, sphinx))
       IN  /\ repo' = st.R
           /\ sphinx' = st.cfg
    /\ stage' = "applied"
    /\ UNCHANGED <<runner, study, owners, variant, rendered, broken, built, first,
                   descriptor, emitted>>

CatalogNext ==
    \/ CatalogBuild
    \/ CatalogApply

SpecCatalog == CatalogInit /\ [][CatalogNext]_vars

(* ---------------------------- one round of the template loop ----------- *)

\* the lists of at most n candidate names that are empty or name the
\* template itself, as every possible_files of both to_update lists does
CandidateLists(n) ==
    {c \in UNION {[1..k -> Range(LicenseNames)] : k \in 0..n} :
        c = <<>> \/ "LICENSE" \in Range(c)}

\* the descriptors a to_update list of either script may hold
Descriptors(v) ==
    IF v = "python"
    THEN {TemplateFile("LICENSE", c, a) :
            c \in CandidateLists(MaxCandidates), a \in BOOLEAN}
    ELSE {TwincatTemplateFile("LICENSE", c, a, u) :
            c \in CandidateLists(MaxCandidates), a \in BOOLEAN, u \in BOOLEAN}

DescriptorInit ==
    /\ hasGit = TRUE
    /\ catalog = <<>>
    /\ dry_run = TRUE
    /\ skip = {}
    /\ only = {}
    /\ fixes = <<>>
    /\ pc = "get_fixes"
    /\ i = 0
    /\ output = <<>>
    /\ ran = <<>>
    /\ disk = <<>>
    /\ tracked = FALSE
    /\ untracked = FALSE
    /\ probes = <<>>
    /\ commits = <<>>
    /\ prompts = <<>>
    /\ lastAnswer = "none"
    /\ outcome = "running"
    /\ variant \in {"python", "twincat"}
    /\ \E files \in SUBSET Range(LicenseNames), t \in FileTexts :
          repo = [p \in files |-> t]
    /\ sphinx = {}
    /\ rendered \in TemplateTexts
    /\ broken = {}
    /\ stage = "to_update"
    /\ built = NotBuilt
    /\ first = NotBuilt
    /\ descriptor \in Descriptors(variant)
    /\ emitted = <<>>
    /\ subject = <<>>
    /\ trees = <<>>
    /\ raises = <<>>
    /\ write = FALSE
    /\ DryRunner_run = FALSE
    /\ decorated = <<>>
    /\ events = <<>>
    /\ repos = <<>>
    /\ settings = 0
    /\ branches = {}
    /\ api_calls = <<>>
    /\ at = "idle"

\* one round of `for file in to_update` of the Python script
PyLoopRound ==
    /\ stage = "to_update"
    /\ variant = "python"
    /\ emitted' = PyLoopBody(descriptor, repo, broken)
    /\ stage' = "appended"
    /\ UNCHANGED <<runner, study, owners, variant, repo, sphinx, rendered, broken, built,
                   first, descriptor>>

\* one round of `for file in to_update` of the TwinCAT script
TcLoopRound ==
    /\ stage = "to_update"
    /\ variant = "twincat"
    /\ emitted' = TcLoopBody(descriptor, repo, broken)
    /\ stage' = "appended"
    /\ UNCHANGED <<runner, study, owners, variant, repo, sphinx, rendered, broken, built,
                   first, descriptor>>

DescriptorNext ==
    \/ PyLoopRound
    \/ TcLoopRound

SpecDescriptor == DescriptorInit /\ [][DescriptorNext]_vars

(* ---------------------------- one fix on its own ----------------------- *)

\* the files the DeleteFiles fixes of the catalog list
StudyPaths == {"setup.py", "setup.cfg", "versioneer.py"}

\* the lists of at most n files, none listed twice
FileLists(n) ==
    {c \in UNION {[1..k -> StudyPaths] : k \in 0..n} :
        \A a, b \in DOMAIN c : a # b => c[a] # c[b]}

\* the lines a line fix is configured with or a file holds
StudyLines == {<<"v">>, <<"g">>, <<"d">>}

\* the lists of at most n lines
LineLists(n) == UNION {[1..k -> StudyLines] : k \in 0..n}

\* the texts of the file a line fix edits: with and without a final newline
LineTexts ==
    {join(ls) \o e : ls \in LineLists(MaxLines), e \in {<<>>, <<"\n">>}}

\* the file a line fix edits
init_py == import_dir \o "__init__.py"

FixInit ==
    /\ hasGit = TRUE
    /\ catalog = <<>>
    /\ dry_run = FALSE
    /\ skip = {}
    /\ only = {}
    /\ fixes = <<>>
    /\ pc = "run"
    /\ i = 0
    /\ output = <<>>
    /\ ran = <<>>
    /\ disk = <<>>
    /\ tracked = FALSE
    /\ untracked = FALSE
    /\ probes = <<>>
    /\ commits = <<>>
    /\ prompts = <<>>
    /\ lastAnswer = "none"
    /\ outcome = "running"
    /\ variant = "python"
    /\ sphinx = {}
    /\ broken = {}
    /\ stage = "constructed"
    /\ built = NotBuilt
    /\ first = NotBuilt
    /\ descriptor = <<>>
    /\ emitted = <<>>
    /\ \/ /\ rendered = <<"x", "\n">>
          /\ \E present \in SUBSET StudyPaths :
                repo = [p \in present |-> <<"x", "\n">>]
          /\ \E files \in FileLists(MaxListed), missing_ok \in BOOLEAN :
                subject = DeleteFiles("delete", files, missing_ok)
       \/ /\ rendered = <<"x", "\n">>
          /\ \/ repo = <<>>
             \/ \E t \in LineTexts : repo = [p \in {init_py} |-> t]
          /\ \E lines \in LineLists(MaxLines), skip_if_present \in BOOLEAN :
                subject \in
                    {[PrependLines("prepend", init_py, lines)
                         EXCEPT !.skip_if_present = skip_if_present],
                     [AppendLines("append", init_py, lines)
                         EXCEPT !.skip_if_present = skip_if_present]}
       \/ /\ rendered \in TemplateTexts
          /\ \/ repo = <<>>
             \/ \E t \in FileTexts \cup TemplateTexts :
                   repo = [p \in {"LICENSE"} |-> t]
          /\ subject = AddFileFromTemplate("LICENSE", "LICENSE", "LICENSE",
                                           repo, broken)
    /\ trees = <<repo>>
    /\ raises = <<>>
    /\ write = FALSE
    /\ DryRunner_run = FALSE
    /\ decorated = <<>>
    /\ events = <<>>
    /\ repos = <<>>
    /\ settings = 0
    /\ branches = {}
    /\ api_calls = <<>>
    /\ at = "idle"

\* one call of subject.run()
FixRun ==
    /\ stage = "constructed"
    /\ Len(raises) < MaxRuns
    /\ LET st == run(subject, Tree(repo, sphinx))
       IN  /\ repo' = st.R
           /\ trees' = Append(trees, st.R)
           /\ raises' = Append(raises, st.raised)
    /\ UNCHANGED <<runner, owners, variant, sphinx, rendered, broken, stage,
                   built, first, descriptor, emitted, subject>>

FixNext == FixRun

SpecFix == FixInit /\ [][FixNext]_vars

(* ---------------------------- DryRunner -------------------------------- *)

\* values a decorator is configured to return on a dry call; "None" is the
\* default
RetVals == {"None", "dry"}

\* what the wrapped function of decorated function number k returns
Result(k) == <<"result", k>>

\* (mutant) _decorated with the test on the flag inverted
_decorated_inverted(k, _run) ==
    IF _run
    THEN [op |-> "call", f |-> k, invoked |-> FALSE,
          returned |-> decorated[k]._ret_val]
    ELSE [op |-> "call", f |-> k, invoked |-> TRUE, returned |-> Result(k)]

\* DryRunner.__call__._decorated of decorated function number k, with _run
\* what self._run evaluates to
_decorated(k, _run) ==
    IF ~_run
    THEN [op |-> "call", f |-> k, invoked |-> FALSE,
          returned |-> decorated[k]._ret_val]
    ELSE [op |-> "call", f |-> k, invoked |-> TRUE, returned |-> Result(k)]

DryRunnerInit ==
    /\ hasGit = TRUE
    /\ catalog = <<>>
    /\ dry_run = FALSE
    /\ skip = {}
    /\ only = {}
    /\ fixes = <<>>
    /\ pc = "helpers"
    /\ i = 0
    /\ output = <<>>
    /\ ran = <<>>
    /\ disk = <<>>
    /\ tracked = FALSE
    /\ untracked = FALSE
    /\ probes = <<>>
    /\ commits = <<>>
    /\ prompts = <<>>
    /\ lastAnswer = "none"
    /\ outcome = "running"
    /\ variant = "python"
    /\ repo = <<>>
    /\ sphinx = {}
    /\ rendered = <<>>
    /\ broken = {}
    /\ stage = "idle"
    /\ built = <<>>
    /\ first = <<>>
    /\ descriptor = <<>>
    /\ emitted = <<>>
    /\ subject = <<>>
    /\ trees = <<>>
    /\ raises = <<>>
    /\ write = FALSE
    /\ DryRunner_run = FALSE
    /\ decorated = <<>>
    /\ events = <<>>
    /\ repos = <<>>
    /\ settings = 0
    /\ branches = {}
    /\ api_calls = <<>>
    /\ at = "helpers"

\* @DryRunner(ret_val) over a function: __init__ stores ret_val on the
\* instance, __call__ returns _decorated
Decorate ==
    /\ at = "helpers"
    /\ Len(events) < MaxEvents
    /\ \E ret_val \in RetVals :
          decorated' = Append(decorated, [_ret_val |-> ret_val])
    /\ events' = Append(events, [op |-> "decorate", f |-> Len(decorated) + 1])
    /\ UNCHANGED <<runner, snapshot, study, write, DryRunner_run, repos,
                   settings, branches, api_calls, at>>

\* DryRunner.set(run): the class attribute is assigned
DryRunnerSet ==
    /\ at = "helpers"
    /\ Len(events) < MaxEvents
    /\ \E run_ \in BOOLEAN :
          /\ DryRunner_run' = run_
          /\ events' = Append(events, [op |-> "set", run |-> run_])
    /\ UNCHANGED <<runner, snapshot, study, write, decorated, repos, settings,
                   branches, api_calls, at>>

\* a call of a decorated function; no instance has a _run of its own, so
\* self._run reads the class attribute
Call ==
    /\ at = "helpers"
    /\ Len(events) < MaxEvents
    /\ \E k \in DOMAIN decorated :
          events' = Append(events, _decorated(k, DryRunner_run))
    /\ UNCHANGED <<runner, snapshot, study, write, DryRunner_run, decorated,
                   repos, settings, branches, api_calls, at>>

DryRunnerNext ==
    \/ Decorate
    \/ DryRunnerSet
    \/ Call

SpecDryRunner == DryRunnerInit /\ [][DryRunnerNext]_vars

(* ---------------------------- add_codeowners --------------------------- *)

\* the repositories the settings name
RepoNames == {"r1", "r2"}

\* the lists of at most k settings: the rows of the csv file, or the one
\* repository of the command line
RepoLists(k) == UNION {[1..j -> RepoNames] : j \in 0..k}

\* a call on the GitHub API for the settings at hand; ok is whether it
\* returned rather than raised
ApiCall(op, ok) ==
    [settings |-> settings, repo |-> repos[settings], op |-> op, ok |-> ok]

\* where main goes after the settings at hand
NextSettings ==
    IF settings < Len(repos)
    THEN /\ settings' = settings + 1
         /\ at' = "repos.get"
    ELSE /\ settings' = settings
         /\ at' = "done"

OwnersInit ==
    /\ hasGit = TRUE
    /\ catalog = <<>>
    /\ dry_run = FALSE
    /\ skip = {}
    /\ only = {}
    /\ fixes = <<>>
    /\ pc = "add_codeowners"
    /\ i = 0
    /\ output = <<>>
    /\ ran = <<>>
    /\ disk = <<>>
    /\ tracked = FALSE
    /\ untracked = FALSE
    /\ probes = <<>>
    /\ commits = <<>>
    /\ prompts = <<>>
    /\ lastAnswer = "none"
    /\ outcome = "running"
    /\ variant = "python"
    /\ repo = <<>>
    /\ sphinx = {}
    /\ rendered = <<>>
    /\ broken = {}
    /\ stage = "idle"
    /\ built = <<>>
    /\ first = <<>>
    /\ descriptor = <<>>
    /\ emitted = <<>>
    /\ subject = <<>>
    /\ trees = <<>>
    /\ raises = <<>>
    /\ write \in BOOLEAN
    /\ DryRunner_run = FALSE
    /\ decorated = <<>>
    /\ events = <<>>
    /\ repos \in RepoLists(MaxRepos)
    /\ settings = 0
    /\ branches \in SUBSET RepoNames
    /\ api_calls = <<>>
    /\ at = "main"

\* main up to the first add_codeowners_from_setting: DryRunner.set(run=write)
OwnersMain ==
    /\ at = "main"
    /\ DryRunner_run' = write
    /\ IF repos = <<>>
       THEN /\ at' = "done"
            /\ settings' = settings
       ELSE /\ at' = "repos.get"
            /\ settings' = 1
    /\ UNCHANGED <<runner, snapshot, study, write, decorated, events, repos,
                   branches, api_calls>>

\* add_codeowners_from_setting: api.repos.get, which is not decorated
ReposGet ==
    /\ at = "repos.get"
    /\ \E ok \in BOOLEAN :
          /\ api_calls' = Append(api_calls, ApiCall("repos.get", ok))
          /\ at' = IF ok THEN "create_branch" ELSE "raised"
    /\ UNCHANGED <<runner, snapshot, study, write, DryRunner_run, decorated,
                   events, repos, settings, branches>>

\* the decorated create_branch: nothing when dry; otherwise get_branch, then
\* delete_ref when the branch was found (an HTTPError of either is passed
\* over), then get_branch of the default branch and create_ref
create_branch ==
    /\ at = "create_branch"
    /\ IF ~DryRunner_run
       THEN /\ at' = "add_codeowners_file_to_branch"
            /\ UNCHANGED <<branches, api_calls>>
       ELSE \E deleted \in BOOLEAN, sha \in BOOLEAN, created \in BOOLEAN :
              LET r == repos[settings]
                  found == r \in branches
                  left == IF found /\ deleted THEN branches \ {r} ELSE branches
              IN  /\ created => r \notin left
                  /\ api_calls' =
                        api_calls
                            \o <<ApiCall("repos.get_branch", found)>>
                            \o (IF found
                                THEN <<ApiCall("git.delete_ref", deleted)>>
                                ELSE <<>>)
                            \o <<ApiCall("repos.get_branch default", sha)>>
                            \o (IF sha
                                THEN <<ApiCall("git.create_ref", created)>>
                                ELSE <<>>)
                  /\ branches' = IF sha /\ created THEN left \cup {r} ELSE left
                  /\ at' = IF sha /\ created
                           THEN "add_codeowners_file_to_branch" ELSE "raised"
    /\ UNCHANGED <<runner, snapshot, study, write, DryRunner_run, decorated,
                   events, repos, settings>>

\* the decorated add_codeowners_file_to_branch: nothing when dry; otherwise
\* get_content (an HTTPError means a new file) and
\* create_or_update_file_contents
add_codeowners_file_to_branch ==
    /\ at = "add_codeowners_file_to_branch"
    /\ IF ~DryRunner_run
       THEN /\ at' = "create_pull_request"
            /\ UNCHANGED api_calls
       ELSE \E exists \in BOOLEAN, ok \in BOOLEAN :
              /\ api_calls' =
                    api_calls
                        \o <<ApiCall("repos.get_content", exists),
                             ApiCall("repos.create_or_update_file_contents", ok)>>
              /\ at' = IF ok THEN "create_pull_request" ELSE "raised"
    /\ UNCHANGED <<runner, snapshot, study, write, DryRunner_run, decorated,
                   events, repos, settings, branches>>

\* (mutant) create_pull_request without its decorator
create_pull_request_undecorated ==
    /\ at = "create_pull_request"
    /\ \E opened \in BOOLEAN, ok \in BOOLEAN :
          /\ api_calls' =
                api_calls
                    \o <<ApiCall("pulls.create", opened)>>
                    \o (IF opened
                        THEN <<ApiCall("pulls.request_reviewers", ok)>>
                        ELSE <<>>)
          /\ IF opened /\ ok
             THEN NextSettings
             ELSE /\ at' = "raised"
                  /\ settings' = settings
    /\ UNCHANGED <<runner, snapshot, study, write, DryRunner_run, decorated,
                   events, repos, branches>>

\* the decorated create_pull_request: nothing when dry; otherwise
\* pulls.create and then pulls.request_reviewers
create_pull_request ==
    /\ at = "create_pull_request"
    /\ IF ~DryRunner_run
       THEN /\ NextSettings
            /\ UNCHANGED api_calls
       ELSE \E opened \in BOOLEAN, ok \in BOOLEAN :
              /\ api_calls' =
                    api_calls
                        \o <<ApiCall("pulls.create", opened)>>
                        \o (IF opened
                            THEN <<ApiCall("pulls.request_reviewers", ok)>>
                            ELSE <<>>)
              /\ IF opened /\ ok
                 THEN NextSettings
                 ELSE /\ at' = "raised"
                      /\ settings' = settings
    /\ UNCHANGED <<runner, snapshot, study, write, DryRunner_run, decorated,
                   events, repos, branches>>

OwnersNext ==
    \/ OwnersMain
    \/ ReposGet
    \/ create_branch
    \/ add_codeowners_file_to_branch
    \/ create_pull_request

SpecOwners == OwnersInit /\ [][OwnersNext]_vars

(* ---------------------------- properties ------------------------------- *)

IsPrefix(s, t) == Len(s) <= Len(t) /\ s = SubSeq(t, 1, Len(s))

\* fix k passes the --skip / --only filters as the specification words them
Chosen(k) ==
    /\ fixes[k].name \notin skip
    /\ (only = {} \/ fixes[k].name \in only)

\* the chosen fixes, in catalog order
ChosenSeq == SelectSeq([k \in 1..Len(fixes) |-> k], LAMBDA k : Chosen(k))

\* C1 (dry-run purity): with dry_run set, run_fixes invokes no fix's run(),
\* never queries git status, never creates (or attempts) a commit, raises no
\* prompt, leaves every file and the working tree as they were, never
\* reaches the execution phase and, once entered, returns through the
\* "if dry_run: return" (the only exception possible is get_fixes').
DryRunPurity ==
    /\ [](dry_run =>
            /\ ran = <<>> /\ probes = <<>> /\ commits = <<>> /\ prompts = <<>>
            /\ \A k \in DOMAIN disk : disk[k] = "untouched"
            /\ pc \in {"main", "preview", "done", "raised"}
            /\ (pc = "raised" => outcome = "RuntimeError" /\ ~hasGit)
            /\ (pc = "done" => outcome = "dry_run"))
    /\ [][dry_run => tracked' = tracked /\ disk' = disk]_vars

\* a dry run over a dirty tree, with a chosen fix that would commit, returned
DryRunWitness ==
    /\ dry_run /\ pc = "done" /\ outcome = "dry_run"
    /\ tracked /\ untracked
    /\ \E k \in DOMAIN fixes : Chosen(k) /\ commit_message(fixes[k]) # ""
    /\ \E k \in DOMAIN fixes : fixes[k].name \in skip

\* C2 (phase order): once the preview loop is over, in dry-run and in write
\* mode alike, the k-th thing printed is the description of fix k for every
\* fix whose name is not in the skip set (whatever --only says); no run()
\* is invoked while the preview is going on; and in write mode everything
\* printed before the "Running fixes" banner is the complete preview, so the
\* first run() comes after the preview of all fixes.
PhaseOrder ==
    /\ (pc \in {"main", "preview"} => ran = <<>>)
    /\ (pc \notin {"main", "preview"} /\ hasGit =>
            /\ Len(output) >= Len(fixes)
            /\ \A k \in DOMAIN fixes :
                  fixes[k].name \notin skip =>
                      output[k] = [kind |-> "desc", fix |-> k])
    /\ (ran # <<>> =>
            /\ ~dry_run
            /\ Len(output) > Len(fixes)
            /\ output[Len(fixes) + 1].kind = "banner"
            /\ \A j \in 1..Len(fixes) : output[j].kind # "banner")

\* a write run in which a fix left out by --only was previewed all the same,
\* another fix was skipped, and a third one has run
PhaseOrderWitness ==
    /\ ~dry_run /\ ran # <<>>
    /\ \E k \in DOMAIN fixes :
          /\ fixes[k].name \notin skip
          /\ ~Chosen(k)
          /\ k > ran[1]
    /\ \E k \in DOMAIN fixes : fixes[k].name \in skip

\* C3 (commit gating): in write mode a fix whose commit_message is "" never
\* has a commit attempted for it nor the status probe made for it, whatever
\* the working tree holds.
CommitGating ==
    /\ \A c \in Range(commits) : commit_message(fixes[c.fix]) # ""
    /\ \A p \in Range(probes) : commit_message(fixes[p.fix]) # ""

\* a fix with an empty commit message ran and changed the tree, over a tree
\* that was dirty already, and the run went on to its end
CommitGatingWitness ==
    /\ outcome = "end"
    /\ tracked /\ untracked
    /\ \E k \in Range(ran) :
          /\ commit_message(fixes[k]) = ""
          /\ disk[k] = "done"

\* the answers the specification counts as "continue": empty, y or yes in
\* any letter case
Affirmative ==
    {"", "y", "Y", "yes", "yeS", "yEs", "yES", "Yes", "YeS", "YEs", "YES"}

\* fix.run() of fix k raised
RunRaised(k) == \E p \in Range(prompts) : p.fix = k /\ p.stage = "run"

\* GitCommit.run() was called for fix k
Attempted(k) == \E c \in Range(commits) : c.fix = k

\* what the status probe made after fix k reported
ProbeOf(k) == {p.result : p \in {q \in Range(probes) : q.fix = k}}

\* the loop is through with fix k's commit stage
Handled(k) == i > k \/ pc \in {"done", "raised", "prompt_commit"}

\* C4 (commit exactly when): for every fix whose run() returned, once the
\* runner is through with it, a commit was attempted for it (once, its
\* message starting with the fix's commit message) exactly when that message
\* is non-empty and the status probe reported pending changes; when the
\* message is empty or the probe reported a clean tree, no commit is
\* attempted, no prompt is raised and the loop is at a later fix.
CommitExactlyWhen ==
    \A k \in Range(ran) :
        (~RunRaised(k) /\ Handled(k)) =>
            LET msg == commit_message(fixes[k])
                want == msg # "" /\ "dirty" \in ProbeOf(k)
                mine == {n \in DOMAIN commits : commits[n].fix = k}
            IN  /\ Attempted(k) <=> want
                /\ Cardinality(mine) <= 1
                /\ \A n \in mine : commits[n].message[1] = msg
                /\ (msg = "" \/ ProbeOf(k) = {""}) =>
                       /\ \A p \in Range(prompts) : p.fix # k
                       /\ i > k

\* one fix was committed after a dirty probe, another with a commit message
\* was passed over after a clean probe, and the run reached its end
CommitExactlyWhenWitness ==
    /\ outcome = "end"
    /\ \E k \in Range(ran) :
          /\ ~RunRaised(k)
          /\ \E c \in Range(commits) : c.fix = k /\ c.created
    /\ \E k \in Range(ran) :
          /\ ~RunRaised(k)
          /\ commit_message(fixes[k]) # ""
          /\ ProbeOf(k) = {""}
          /\ ~Attempted(k)

\* C5 (skip/only filtering): in write mode run() is invoked only on fixes
\* whose name is not in skip and, when only is non-empty, is in only, each at
\* most once and in catalog order (the fixes run so far are a prefix of the
\* chosen ones), and on every one of them when the loop reaches the end of
\* the list; so --only with one matching name runs exactly one fix.
SkipOnlyFiltering ==
    /\ IsPrefix(ran, ChosenSeq)
    /\ (outcome = "end" => ran = ChosenSeq)

\* Scenario D: the five-fix catalog, --only naming its last fix and --skip
\* another one: exactly that fix has run when run_fixes returns
SkipOnlyWitness ==
    /\ outcome = "end"
    /\ Len(fixes) = 5
    /\ only = {fixes[5].name}
    /\ skip = {"gha"}
    /\ ran = <<5>>

\* C6 (Scenario E): when fix.run() raised and the operator's answer is not
\* empty / y / yes, run_fixes returns at once: no further run(), probe or
\* commit, and nothing on disk or in the working tree is touched; nothing
\* happens after the return, and no step ever takes back what a fix's run()
\* left on disk.
ScenarioE ==
    /\ [][(pc = "prompt_run" /\ lastAnswer' \notin Affirmative) =>
             (pc' = "done" /\ UNCHANGED <<ran, commits, probes, disk, tracked>>)]_vars
    /\ [][pc # "done"]_vars
    /\ [][\A k \in DOMAIN disk :
             disk[k] # "untouched" => disk'[k] = disk[k]]_vars

\* an earlier fix is done, the next one raised half-way, the operator
\* declined, and a chosen fix is left that never ran
ScenarioEWitness ==
    /\ outcome = "break"
    /\ lastAnswer \notin Affirmative
    /\ Len(ran) = 2
    /\ disk[ran[1]] = "done"
    /\ disk[ran[2]] = "partial"
    /\ prompts[Len(prompts)] = [fix |-> ran[2], stage |-> "run"]
    /\ \E k \in DOMAIN fixes : k > ran[2] /\ Chosen(k) /\ disk[k] = "untouched"
    /\ ~Attempted(ran[2])

\* C7 (failure recovery), as claimed: whenever some exception was caught
\* and the operator's answers were affirmative, run_fixes has run every
\* chosen fix by the time it is over.
FailureRecovery ==
    (/\ pc \in {"done", "raised"}
     /\ prompts # <<>>
     /\ lastAnswer \in Affirmative) => ran = ChosenSeq

\* C8 (commit failure never aborts), as claimed: once a commit attempt has
\* failed, run_fixes still runs every chosen fix before it is over.
CommitFailureNeverAborts ==
    (/\ pc \in {"done", "raised"}
     /\ \E c \in Range(commits) : ~c.created) => ran = ChosenSeq

\* C8 as amended: a commit failure never ends the run by itself. A clean
\* status is passed over without commit or prompt; a failing git commit is
\* caught and the operator asked; the run ends there only on an answer that
\* is not affirmative; on an affirmative one the loop moves to the next
\* fix, and from the head of the loop nothing but the end of the list stops
\* it from running the next chosen fix.
CommitFailureContinues ==
    /\ [][(pc = "status" /\ ~tracked /\ ~untracked /\ pc' # "raised") =>
             (pc' = "exec" /\ i' = i + 1 /\ UNCHANGED <<commits, prompts>>)]_vars
    /\ [][pc = "commit" => pc' \in {"exec", "prompt_commit"}]_vars
    /\ [][(pc = "prompt_commit" /\ lastAnswer' \in Affirmative) =>
             (pc' = "exec" /\ i' = i + 1)]_vars
    /\ [][(pc = "prompt_commit" /\ lastAnswer' \notin Affirmative) =>
             pc' = "done"]_vars
    /\ [][pc = "exec" =>
             IF i > Len(fixes) THEN pc' = "done" /\ outcome' = "end"
             ELSE IF Chosen(i) THEN ran' = Append(ran, i)
             ELSE pc' = "exec" /\ i' = i + 1 /\ ran' = ran]_vars

\* a git commit failed, the operator let the run go on, a later fix ran and
\* the run reached its end
CommitFailureWitness ==
    /\ outcome = "end"
    /\ \E c \in Range(commits) :
          /\ ~c.created
          /\ \E k \in Range(ran) : k > c.fix

\* C9 (status failure), as claimed: a status query that exits non-zero does
\* not leave run_fixes as an exception, and the operator is asked about
\* the fix it was made for.
StatusFailureSurfaced ==
    \A p \in Range(probes) :
        p.result = "error" =>
            /\ pc # "raised"
            /\ \E q \in Range(prompts) : q.fix = p.fix /\ q.stage # "run"

\* C10 (precondition failure): without a .git entry at the root, get_fixes
\* raises before any fix exists: main never holds a fix list, nothing is
\* previewed, run, probed or committed, and no file or tree state changes.
PreconditionFailure ==
    /\ [](~hasGit =>
            /\ pc \in {"main", "raised"}
            /\ (pc = "raised" => outcome = "RuntimeError")
            /\ fixes = <<>> /\ output = <<>> /\ ran = <<>>
            /\ probes = <<>> /\ commits = <<>> /\ prompts = <<>>
            /\ \A k \in DOMAIN disk : disk[k] = "untouched")
    /\ [][~hasGit => tracked' = tracked /\ disk' = disk]_vars

\* main was called in write mode on a directory without .git whose state
\* calls for five fixes, and ended with get_fixes' RuntimeError
PreconditionFailureWitness ==
    /\ ~hasGit /\ ~dry_run
    /\ Len(catalog) = 5
    /\ pc = "raised" /\ outcome = "RuntimeError"

(* ---------------------------- properties of the catalog ---------------- *)

\* C11 (catalog-construction failure isolation): when the constructor of one
\* fix fails inside get_fixes (its template is missing, .travis.yml or
\* setup.py cannot be parsed), get_fixes still returns a catalog, and the
\* catalog holds exactly the fixes whose constructors did not fail.
ConstructionIsolation ==
    (/\ stage = "built"
     /\ ~(variant = "twincat" /\ TcDescriptorRaises(repo))
     /\ \E f \in Range(constructed(variant, repo, sphinx, broken)) : f.raises)
        => /\ ~built.raised
           /\ built.fixes = SelectSeq(constructed(variant, repo, sphinx, broken),
                                      LAMBDA f : ~f.raises)

\* the catalog a get_fixes call returned
Returned == stage \in {"built", "rebuilt"} /\ ~built.raised

\* the class of the priority list a fix belongs to: 1 obsolete-file removal,
\* 2 template provisioning, 3 CI migration, 4 config touch-up, 5 style
\* normalization, 6 build-metadata migration, 7 version-management migration
Priority(fix) ==
    CASE fix.cls = "DeleteFiles" -> 1
      [] fix.cls = "AddFileFromTemplate" -> 2
      [] fix.cls = "GitHubActionsMigration" -> 3
      [] fix.cls = "UpdateSphinxConfig" -> 4
      [] fix.cls \in {"RunPyupgrade", "PrecommitAutoupdate"} -> 5
      [] fix.cls = "PyprojectTomlMigration" -> 6
      [] fix.cls = "SetuptoolsScmMigration" -> 7

\* C12 (catalog priority order): in every catalog get_fixes returns, of the
\* Python and of the TwinCAT script, no fix of a later class of the priority
\* list precedes a fix of an earlier class.
PriorityOrder ==
    Returned =>
        \A j, k \in DOMAIN built.fixes :
            j < k => Priority(built.fixes[j]) <= Priority(built.fixes[k])

\* the fixes of the returned catalog built from templates
TemplateFixes ==
    {f \in Range(built.fixes) : f.cls = "AddFileFromTemplate"}

\* the names of the fixes of the TwinCAT descriptors whose
\* update_if_existing policy is false
LockedNames ==
    {"add_" \o TcToUpdate[k].template_file :
        k \in {j \in DOMAIN TcToUpdate : ~TcToUpdate[j].update_if_existing}}

\* C13 (catalog idempotence): once every fix of a catalog has run, the
\* catalog built again on the result holds no fix for a template whose
\* update_if_existing policy is false, no migration whose legacy file is
\* gone, and only template fixes that describe themselves as unchanged.
CatalogIdempotence ==
    (stage = "rebuilt" /\ ~built.raised) =>
        /\ variant = "twincat" =>
              \A f \in Range(built.fixes) : f.name \notin LockedNames
        /\ \A f \in Range(built.fixes) :
              /\ f.cls = "GitHubActionsMigration" => travis_yml \in DOMAIN repo
              /\ f.cls = "PyprojectTomlMigration" => "setup.py" \in DOMAIN repo
              /\ f.cls = "SetuptoolsScmMigration" =>
                    \/ "versioneer.py" \in DOMAIN repo
                    \/ import_dir \o "version.py" \notin DOMAIN repo
        /\ \A f \in TemplateFixes :
              description(f) = "unchanged; this fix is a no-op"

\* no two fixes of the list declare a common path in their files
Disjoint(list) ==
    \A j, k \in DOMAIN list :
        j < k => Range(list[j].files) \cap Range(list[k].files) = {}

\* C14 (non-overlap): in every catalog get_fixes returns, no two sibling
\* fixes declare file lists that share a path, neither at the top level nor
\* among the children of one composite fix.
NonOverlap ==
    Returned =>
        /\ Disjoint(built.fixes)
        /\ \A f \in Range(built.fixes) : Disjoint(f.nested_fixes)

\* the paths fix.run() creates, rewrites or deletes on the working tree
Touched(fix) == run(fix, Tree(repo, sphinx)).touched

\* C15 (declared file ownership): every path that run() of a fix of the
\* catalog creates, rewrites or deletes is in the fix's declared files.
DeclaredOwnership ==
    (stage = "built" /\ ~built.raised) =>
        \A f \in Range(built.fixes) : Touched(f) \subseteq Range(f.files)

\* the CI-migration fixes of the returned catalog, by position
CiMigrations ==
    {k \in DOMAIN built.fixes : built.fixes[k].cls = "GitHubActionsMigration"}

\* what a list of fixes does to which files, in order
Steps(list) == [k \in DOMAIN list |-> <<list[k].cls, list[k].files>>]

\* C17 (scenario A): the catalog of a repository with .travis.yml and no
\* modern workflow holds exactly one CI-migration composite, whose children
\* are [delete .travis.yml, add the workflow file] in that order; the catalog
\* of a repository without .travis.yml holds no CI-migration fix.
ScenarioA ==
    Returned =>
        /\ (travis_yml \in DOMAIN repo /\ gha_workflow \notin DOMAIN repo) =>
              /\ Cardinality(CiMigrations) = 1
              /\ \A k \in CiMigrations :
                    Steps(built.fixes[k].nested_fixes) =
                        <<<<"DeleteFiles", <<travis_yml>>>>,
                          <<"AddFile", <<gha_workflow>>>>>>
        /\ travis_yml \notin DOMAIN repo => CiMigrations = {}

ScenarioAWitness ==
    /\ stage = "built"
    /\ ~built.raised
    /\ travis_yml \in DOMAIN repo
    /\ gha_workflow \notin DOMAIN repo
    /\ \E k \in DOMAIN built.fixes :
          /\ built.fixes[k].name = "gha"
          /\ Len(built.fixes[k].nested_fixes) = 2

\* the template fixes of the returned catalog, nested ones included
AllTemplateFixes ==
    TemplateFixes
        \cup {c \in UNION {Range(f.nested_fixes) : f \in Range(built.fixes)} :
                c.cls = "AddFileFromTemplate"}

\* C18 (scenario B and graceful preview): the catalog of a repository with
\* none of the LICENSE candidates holds a template fix for LICENSE whose
\* description begins with "Add *new*"; the description of a template fix
\* whose destination does not exist is that text and never an exception.
ScenarioB ==
    Returned =>
        /\ (\A c \in Range(LicenseNames) : c \notin DOMAIN repo) =>
              \E f \in TemplateFixes :
                  /\ f.name = "add_LICENSE"
                  /\ f.file = "LICENSE"
                  /\ description(f) = "Add *new*"
        /\ \A f \in AllTemplateFixes :
              f.file \notin DOMAIN repo => description(f) = "Add *new*"

ScenarioBWitness ==
    /\ stage = "built"
    /\ ~built.raised
    /\ DOMAIN repo \cap Range(LicenseNames) = {}
    /\ \E f \in TemplateFixes :
          f.name = "add_LICENSE" /\ f.existing_contents = None

\* a candidate destination of the descriptor exists in the working tree
CandidateExists(file) ==
    \E c \in Range(file.possible_files) : c \in DOMAIN repo

\* C19 (scenario C): for every template descriptor whose update_if_existing
\* policy is false, when one of its candidate destinations exists in the
\* repository the catalog holds no fix for that descriptor.
ScenarioC ==
    (Returned /\ variant = "twincat") =>
        \A k \in DOMAIN TcToUpdate :
            (~TcToUpdate[k].update_if_existing /\ CandidateExists(TcToUpdate[k]))
                => \A f \in Range(built.fixes) :
                      f.name # "add_" \o TcToUpdate[k].template_file

ScenarioCWitness ==
    /\ stage = "built"
    /\ ~built.raised
    /\ variant = "twincat"
    /\ "README.md" \in DOMAIN repo
    /\ \E f \in Range(built.fixes) : f.name = "add_.pre-commit-config.yaml"
    /\ \A f \in Range(built.fixes) : f.name # "add_README.md"

\* the candidates of the descriptor that exist, by position
Existing ==
    {k \in DOMAIN descriptor.possible_files :
        descriptor.possible_files[k] \in DOMAIN repo}

\* the first candidate of the descriptor that exists
FirstExisting ==
    descriptor.possible_files[CHOOSE k \in Existing : \A h \in Existing : k <= h]

\* C20 (template destination conflict policy): a descriptor yields zero or
\* one fix; a fix of a descriptor with an existing candidate targets the
\* first existing candidate in list order; when no candidate exists the fix
\* targets the template's own path if add_if_missing is true and there is no
\* fix if it is false; when the template's own name is missing and a
\* candidate exists under another name, no fix targets the template's name.
ConflictPolicy ==
    stage = "appended" =>
        /\ Len(emitted) <= 1
        /\ \A k \in DOMAIN emitted :
              emitted[k].cls = "AddFileFromTemplate"
        /\ (Existing # {} /\ emitted # <<>>) => emitted[1].file = FirstExisting
        /\ (Existing # {} /\ variant = "python") => emitted # <<>>
        /\ Existing = {} =>
              IF descriptor.add_if_missing
              THEN /\ Len(emitted) = 1
                   /\ emitted[1].file = descriptor.template_file
              ELSE emitted = <<>>
        /\ (/\ descriptor.template_file \notin DOMAIN repo
            /\ \E k \in Existing :
                  descriptor.possible_files[k] # descriptor.template_file)
              => \A k \in DOMAIN emitted :
                    emitted[k].file # descriptor.template_file

ConflictPolicyWitness ==
    /\ stage = "appended"
    /\ Len(descriptor.possible_files) >= 2
    /\ descriptor.possible_files[1] = descriptor.template_file
    /\ descriptor.template_file \notin DOMAIN repo
    /\ Len(emitted) = 1
    /\ emitted[1].file = descriptor.possible_files[2]

\* the composite fixes of the returned catalog
Composites == {f \in Range(built.fixes) : f.nested_fixes # <<>>}

\* the names of a list of fixes, in order
NamesOf(list) == [k \in DOMAIN list |-> list[k].name]

\* the run() calls a composite makes on its children, in order
ChildCalls(fix) == run(fix, Tree(repo, sphinx)).calls

\* C21 (composite run order): run() of a composite fix calls run() of its
\* children in the order fixed at construction, each at most once; when no
\* child raises, every child has run when the composite's run() returns.
CompositeRunOrder ==
    (stage = "built" /\ ~built.raised) =>
        \A f \in Composites :
            /\ IsPrefix(ChildCalls(f), NamesOf(f.nested_fixes))
            /\ ~run(f, Tree(repo, sphinx)).raised
                  => ChildCalls(f) = NamesOf(f.nested_fixes)

CompositeRunOrderWitness ==
    /\ stage = "built"
    /\ ~built.raised
    /\ \E f \in Composites :
          /\ f.name = "setuptools_scm"
          /\ ~run(f, Tree(repo, sphinx)).raised
          /\ Len(ChildCalls(f)) = 4

\* the classes of the queue that are composites (NestedFix)
CompositeClasses == {"GitHubActionsMigration", "SetuptoolsScmMigration"}

\* the commit messages of the children a composite of that class holds
ChildMessages(cls) ==
    LET nested == IF cls = "GitHubActionsMigration"
                  THEN GitHubActionsMigration("gha", <<>>, {}).nested_fixes
                  ELSE SetuptoolsScmMigration("setuptools_scm", <<>>, {}).nested_fixes
    IN  {commit_message(c) : c \in {d \in Range(nested) : d.cls \in
            {"AddFile", "DeleteFiles", "AddFileFromTemplate"}}}

\* C22 (composite commit message), as claimed: the runner never commits
\* with a composite's own message.
CompositeMessageUnused ==
    \A c \in Range(commits) : fixes[c.fix].cls \notin CompositeClasses

\* C22 (composite commit message), amended: after a composite fix ran, the
\* runner makes at most one commit for it, and that commit carries the
\* composite's own message, never a message of one of its children.
CompositeMessageUsed ==
    \A k \in DOMAIN commits :
        fixes[commits[k].fix].cls \in CompositeClasses =>
            /\ commits[k].message[1] = commit_message(fixes[commits[k].fix])
            /\ commits[k].message[1] \notin ChildMessages(fixes[commits[k].fix].cls)
            /\ commits[k].message[4] = fixes[commits[k].fix].cls
            /\ \A j \in DOMAIN commits :
                  commits[j].fix = commits[k].fix => j = k

CompositeMessageWitness ==
    \E c \in Range(commits) :
        /\ fixes[c.fix].cls = "GitHubActionsMigration"
        /\ c.created
        /\ c.message[1] = "CI: migrate to GitHub actions"

\* C23 (description purity): while the preview loop reads the descriptions
\* of the fixes, composites included, no file of the working tree and
\* nothing of the staging area changes, and no fix is run or committed.
DescriptionPurity ==
    /\ [](pc = "preview" =>
            /\ ran = <<>> /\ commits = <<>> /\ probes = <<>>
            /\ \A k \in DOMAIN disk : disk[k] = "untouched")
    /\ [][pc = "preview" =>
            /\ disk' = disk
            /\ tracked' = tracked
            /\ untracked' = untracked
            /\ ran' = ran]_vars

\* write mode, the preview loop is over: a composite and a template fix
\* were described and nothing has run
DescriptionPurityWitness ==
    /\ ~dry_run
    /\ pc = "preview"
    /\ i > Len(fixes)
    /\ \E o \in Range(output) :
          o.kind = "desc" /\ fixes[o.fix].cls = "GitHubActionsMigration"
    /\ \E o \in Range(output) :
          o.kind = "desc" /\ fixes[o.fix].cls = "AddFileFromTemplate"
    /\ ran = <<>>
    /\ tracked

(* ---------------------------- properties of one fix -------------------- *)

\* the positions of subject.files absent from the working tree R
AbsentIn(R) == {j \in DOMAIN subject.files : subject.files[j] \notin DOMAIN R}

\* the first of them
FirstAbsent(R) == CHOOSE m \in AbsentIn(R) : \A j \in AbsentIn(R) : m <= j

\* path p is in R exactly as it is in S
SameAt(p, R, S) ==
    /\ p \in DOMAIN R <=> p \in DOMAIN S
    /\ p \in DOMAIN R => R[p] = S[p]

\* C24: with missing_ok, run() of a DeleteFiles fix never raises and leaves
\* none of the listed files; without it run() raises at the first listed file
\* that is absent, the files listed before it are deleted and those after it
\* are as they were; with every listed file present it deletes them all.
\* Files that are not listed stay as they were.
DeletePolicy ==
    subject # <<>> /\ subject.cls = "DeleteFiles" =>
        \A k \in DOMAIN raises :
            LET R == trees[k]
                S == trees[k + 1]
                files == subject.files
            IN  /\ \A p \in StudyPaths \ Range(files) : SameAt(p, R, S)
                /\ IF subject.missing_ok \/ AbsentIn(R) = {}
                   THEN /\ ~raises[k]
                        /\ \A j \in DOMAIN files : files[j] \notin DOMAIN S
                   ELSE /\ raises[k]
                        /\ \A j \in DOMAIN files :
                              /\ j < FirstAbsent(R) => files[j] \notin DOMAIN S
                              /\ j > FirstAbsent(R) => SameAt(files[j], R, S)

\* a fix without missing_ok that lists three files, the second of them
\* absent, has raised with the first deleted and the third still there
DeletePolicyWitness ==
    /\ subject # <<>> /\ subject.cls = "DeleteFiles"
    /\ ~subject.missing_ok
    /\ Len(subject.files) = 3
    /\ Len(raises) = 1 /\ raises[1]
    /\ DOMAIN trees[1] = {subject.files[1], subject.files[3]}
    /\ DOMAIN trees[2] = {subject.files[3]}

\* how many lines of the list equal l
Count(l, lines) == Cardinality({k \in DOMAIN lines : lines[k] = l})

\* the lines of the edited file in tree number k
LinesAt(k) == splitlines(trees[k][init_py])

SeveralNewLines(cls) ==
    /\ subject # <<>> /\ subject.cls = cls
    /\ Len(raises) >= 1
    /\ init_py \in DOMAIN trees[1]
    /\ Len(subject.lines) >= 2
    /\ \A a, b \in DOMAIN subject.lines : a # b => subject.lines[a] # subject.lines[b]
    /\ \A l \in Range(subject.lines) : Count(l, LinesAt(1)) = 0

\* C30: after run() with several configured lines none of which the file
\* held, a PrependLines file begins with the configured lines in configured
\* order followed by the original lines, and an AppendLines file ends with
\* the configured lines in configured order after the original lines
InsertionOrder ==
    /\ SeveralNewLines("PrependLines") =>
          LinesAt(2) = subject.lines \o LinesAt(1)
    /\ SeveralNewLines("AppendLines") =>
          LinesAt(2) = LinesAt(1) \o subject.lines

\* the AddFileFromTemplate constructed anew, for the template and destination
\* of the fix studied, on the working tree as it is now
Reconstructed ==
    AddFileFromTemplate(subject.name, subject.file, subject.file, repo, broken)

\* C29: once AddFileFromTemplate.run() has written the destination, a newly
\* constructed AddFileFromTemplate for the same template and destination has
\* changed = False and describes itself as unchanged, a no-op
TemplateRoundTrip ==
    (/\ subject # <<>> /\ subject.cls = "AddFileFromTemplate"
     /\ Len(raises) >= 1) =>
        /\ ~Reconstructed.changed
        /\ description(Reconstructed) = "unchanged; this fix is a no-op"

\* C28: a fix whose run() raised is neither probed for changes nor committed
\* in the same run_fixes call, whatever the operator answers
NoCommitAfterFailedRun ==
    \A k \in DOMAIN fixes :
        RunRaised(k) => /\ ProbeOf(k) = {}
                        /\ ~Attempted(k)

(* ---------------------------- properties of DryRunner ------------------ *)

\* the positions of the set calls made before event number e
SetsBefore(e) == {s \in 1..(e - 1) : events[s].op = "set"}

\* what the latest set call before event number e asked for; False, the
\* initial state, when there was none
Asked(e) ==
    IF SetsBefore(e) = {} THEN FALSE
    ELSE events[CHOOSE s \in SetsBefore(e) : \A t \in SetsBefore(e) : t <= s].run

\* C26: a call of a decorated function made while the latest set call asked
\* for run=False, or before any set call, does not invoke the wrapped
\* function and returns the decorator's ret_val; a call made after
\* set(run=True) invokes the wrapped function and returns its result,
\* whenever the function was decorated
DryRunnerContract ==
    \A e \in DOMAIN events :
        events[e].op = "call" =>
            IF Asked(e)
            THEN /\ events[e].invoked
                 /\ events[e].returned = Result(events[e].f)
            ELSE /\ ~events[e].invoked
                 /\ events[e].returned = decorated[events[e].f]._ret_val

\* a function decorated with a ret_val of its own was called dry, then
\* set(run=True) came and the next call ran it
DryRunnerContractWitness ==
    /\ Len(events) = 4
    /\ events[1].op = "decorate" /\ decorated[1]._ret_val = "dry"
    /\ events[2].op = "call" /\ ~events[2].invoked
    /\ events[3] = [op |-> "set", run |-> TRUE]
    /\ events[4].op = "call" /\ events[4].invoked

(* ---------------------------- properties of add_codeowners ------------- *)

\* the calls that change something on GitHub
Mutating ==
    {"git.delete_ref", "git.create_ref", "repos.create_or_update_file_contents",
     "pulls.create", "pulls.request_reviewers"}

\* the changing calls made for the settings at position p, in order
Submitted(p) ==
    LET mine == SelectSeq(api_calls,
                          LAMBDA c : c.settings = p /\ c.op \in Mutating)
    IN  [k \in DOMAIN mine |-> mine[k].op]

\* create_branch found the branch when it looked for the settings at p
Found(p) ==
    \E c \in Range(api_calls) :
        c.settings = p /\ c.op = "repos.get_branch" /\ c.ok

\* the whole submission for the settings at p
Submission(p) ==
    (IF Found(p) THEN <<"git.delete_ref">> ELSE <<>>)
        \o <<"git.create_ref", "repos.create_or_update_file_contents",
             "pulls.create", "pulls.request_reviewers">>

\* main is through with the settings at p
Through(p) == settings > p \/ (settings = p /\ at = "done")

\* C27: with write enabled the changing calls made for each repository are,
\* as far as they got, branch creation (delete_ref first when the branch was
\* there, then create_ref), the CODEOWNERS commit, pull-request creation and
\* the reviewer request, in that order, and all of them once main moved on;
\* the repositories are worked on in order; without --write no changing call
\* is made
SubmissionSequence ==
    /\ ~write => \A c \in Range(api_calls) : c.op \notin Mutating
    /\ \A a, b \in DOMAIN api_calls :
          a < b => api_calls[a].settings <= api_calls[b].settings
    /\ write =>
          \A p \in DOMAIN repos :
              /\ IsPrefix(Submitted(p), Submission(p))
              /\ Through(p) => Submitted(p) = Submission(p)

\* main ended in write mode after two submissions, one of them over a branch
\* that was deleted first
SubmissionSequenceWitness ==
    /\ write /\ at = "done" /\ Len(repos) = 2
    /\ \E p \in DOMAIN repos : Found(p) /\ Submitted(p) = Submission(p)
    /\ \E p \in DOMAIN repos : ~Found(p) /\ Submitted(p) = Submission(p)

====
